---- MODULE Spec2Model ----
(***************************************************************************)
(* A model of upm's Python backend and content-hash store:                 *)
(*   - GuessPackage (gen_pypi_map/package_guesser.go)                      *)
(*   - normalizePackageName, Search, listSpecfile, guess (python.go)       *)
(*   - readStore, writeStore, updateStoreHashes (store)                    *)
(* Strings are modelled as sequences of one-character strings, so that     *)
(* lower-casing, replacing, splitting and substring search are computed    *)
(* character by character as the Go library does.                          *)
(***************************************************************************)
EXTENDS Integers, Sequences, FiniteSets, TLC

VARIABLES
    \* GuessPackage(module, packages, downloadStats)
    gpModule, gpPackages, gpStats, gpResult, gpPc,
    \* the same candidates in another order, and what GuessPackage returns for
    \* them (same module, same downloadStats)
    gpReordered, gpReorderedResult,
    \* normalizePackageName applied to two names
    nmA, nmB, nmNA, nmNB, nmCount,
    \* guess(): pyproject.toml, the generated PyPI maps, the extracted imports,
    \* availMods, the imports not yet visited, pkgs, what each import added
    gsSpecfile, gsRegistry, gsImports, gsAvail, gsTodo, gsPkgs, gsContrib, gsPc,
    \* Search(query): what Info answers, the matched packages, each goroutine's
    \* position, the channel packageQueries, the WaitGroup counter, results,
    \* and what the previous Search on the same data returned
    srQuery, srInfo, srPackages, srWorker, srChan, srBarrier, srResults, srPrev, srPc,
    \* updateStoreHashes: the specfile and the lockfile on disk, the store file
    \* on disk, the local variable store, the position in the function, and
    \* bookkeeping: the number of the running invocation, the invocations that
    \* returned, the store file as the running invocation found it
    stSpecfile, stLockfile, stPersisted, stLocal, stPc, stInv, stReturned, stAtStart

gpVars == <<gpModule, gpPackages, gpStats, gpResult, gpPc, gpReordered, gpReorderedResult>>
nmVars == <<nmA, nmB, nmNA, nmNB, nmCount>>
gsVars == <<gsSpecfile, gsRegistry, gsImports, gsAvail, gsTodo, gsPkgs, gsContrib, gsPc>>
srVars == <<srQuery, srInfo, srPackages, srWorker, srChan, srBarrier, srResults, srPrev, srPc>>
stVars == <<stSpecfile, stLockfile, stPersisted, stLocal, stPc, stInv, stReturned, stAtStart>>
vars == <<gpVars, nmVars, gsVars, srVars, stVars>>

----------------------------------------------------------------------------
(* Strings *)

\* names used as inputs, written out as character sequences
S_empty == << >>
S_os == <<"o", "s">>
S_ab == <<"a", "b">>
S_b == <<"b">>
S_Ab == <<"A", "b">>
S_python == <<"p", "y", "t", "h", "o", "n">>
S_adashb == <<"a", "-", "b">>
S_A_b == <<"A", "_", "b">>

\* unicode.ToLower on the characters the model uses
LowerChar(c) ==
    CASE c = "A" -> "a"
      [] c = "B" -> "b"
      [] c = "O" -> "o"
      [] c = "S" -> "s"
      [] OTHER -> c

\* strings.ToLower
ToLower(s) == [i \in 1..Len(s) |-> LowerChar(s[i])]

\* strings.Replace(s, old, new, -1) for one-character old and new
ReplaceAll(s, old, new) == [i \in 1..Len(s) |-> IF s[i] = old THEN new ELSE s[i]]

\* a faulty variant of normalizePackageName: the separator replacement is left out
normalizePackageNameNoReplace(name) == ToLower(name)

\* normalizePackageName: lower-case, then every "_" becomes "-"
normalizePackageName(name) == ReplaceAll(ToLower(name), "_", "-")

----------------------------------------------------------------------------
(* GuessPackage *)

\* the largest number of candidates supplied for one module
MaxCands == 2
\* the largest number of modules one candidate declares
MaxMods == 2

\* "downloaded fewer then 100 times, skip the module"
PopularityFloor == 100
\* the factor in downloadStats[second.Name]*5
Multiplier == 5

\* entries of stdlibMods that the model's inputs can spell
stdlibMods == {S_os, <<"r", "e">>, <<"i", "o">>, <<"a", "b", "c">>, <<"s", "y", "s">>}

\* the modules GuessPackage is called with
GPModules == {S_os, S_A_b, S_adashb, S_ab}
\* the names candidates carry
GPNames == {S_adashb, S_A_b, S_os}
\* download counts
PopChoices == {50, 99, 100, 1000}
\* the maps from a part of D into R
PartialMaps(D, R) == UNION {[X -> R] : X \in SUBSET D}

\* PackageInfo.Modules with k entries
ModuleList(k) == [j \in 1..k |-> S_ab]

\* downloadStats[name]: a missing key reads as the zero value
Downloads(stats, name) == IF name \in DOMAIN stats THEN stats[name] ELSE 0

\* stdlibMods[module]
IsStdlib(module) == module \in stdlibMods

\* the comparison of the exact-name loop
ExactNameMatch(candidate, module) ==
    ReplaceAll(ToLower(candidate.Name), "-", "_") = ToLower(module)

\* the index of the first candidate the exact-name loop returns, 0 if none
FirstExactMatch(module, packages) ==
    IF \E i \in 1..Len(packages) : ExactNameMatch(packages[i], module)
    THEN CHOOSE i \in 1..Len(packages) :
            /\ ExactNameMatch(packages[i], module)
            /\ \A j \in 1..(i - 1) : ~ExactNameMatch(packages[j], module)
    ELSE 0

\* the less function handed to sort.Slice
SortLess(stats, a, b) == Downloads(stats, a.Name) > Downloads(stats, b.Name)

\* a faulty variant of SortOutcomes: the slice is left as it was supplied
SortOutcomesAsSupplied(packages, stats) == {packages}

\* what sort.Slice may leave in packages: a permutation in which no element
\* is less than one before it (sort.Slice is not guaranteed to be stable)
SortOutcomes(packages, stats) ==
    LET n == Len(packages)
        perms == {p \in [1..n -> 1..n] : \A i, j \in 1..n : i # j => p[i] # p[j]}
        arranged == {[i \in 1..n |-> packages[p[i]]] : p \in perms}
    IN {s \in arranged : \A i, j \in 1..n : i < j => ~SortLess(stats, s[j], s[i])}

\* a faulty variant of BelowFloor: the floor has lost a digit
BelowFloorTen(stats, top) == Downloads(stats, top.Name) < PopularityFloor \div 10

\* downloadStats[packages[0].Name] < 100
BelowFloor(stats, top) == Downloads(stats, top.Name) < PopularityFloor

\* a faulty variant of MorePopular: the comparison admits equality
MorePopularOrEqual(stats, first, second) ==
    Downloads(stats, first.Name) \div Len(first.Modules) >=
        (Downloads(stats, second.Name) * Multiplier) \div Len(second.Modules)

\* downloadStats[first.Name]/len(first.Modules) >
\*     downloadStats[second.Name]*5/len(second.Modules), in Go's int arithmetic
MorePopular(stats, first, second) ==
    Downloads(stats, first.Name) \div Len(first.Modules) >
        (Downloads(stats, second.Name) * Multiplier) \div Len(second.Modules)

NoSuggestion == [kind |-> "none"]
Selected(pkg, reason) == [kind |-> "selected", pkg |-> pkg, reason |-> reason]
\* a run-time panic: integer divide by zero
Panic == [kind |-> "panic"]

\* a faulty variant of GuessPackageOutcome: the standard-library test comes after
\* the single-candidate and exact-name tests
GuessPackageStdlibLast(module, packages, sorted, stats) ==
    IF Len(packages) = 0 THEN NoSuggestion
    ELSE IF Len(packages) = 1 THEN Selected(packages[1], "only one")
    ELSE IF FirstExactMatch(module, packages) # 0
        THEN Selected(packages[FirstExactMatch(module, packages)], "exact name match")
    ELSE IF IsStdlib(module) THEN NoSuggestion
    ELSE IF BelowFloor(stats, sorted[1]) THEN NoSuggestion
    ELSE IF Len(sorted[1].Modules) = 0 \/ Len(sorted[2].Modules) = 0 THEN Panic
    ELSE IF MorePopular(stats, sorted[1], sorted[2])
        THEN Selected(sorted[1], "5x more popular than next")
    ELSE NoSuggestion

\* the value GuessPackage returns, sorted being what sort.Slice left in
\* packages (the line printed for the module "pattern" changes no result)
GuessPackageOutcome(module, packages, sorted, stats) ==
    IF IsStdlib(module) THEN NoSuggestion
    ELSE IF Len(packages) = 0 THEN NoSuggestion
    ELSE IF Len(packages) = 1 THEN Selected(packages[1], "only one")
    ELSE IF FirstExactMatch(module, packages) # 0
        THEN Selected(packages[FirstExactMatch(module, packages)], "exact name match")
    ELSE IF BelowFloor(stats, sorted[1]) THEN NoSuggestion
    ELSE IF Len(sorted[1].Modules) = 0 \/ Len(sorted[2].Modules) = 0 THEN Panic
    ELSE IF MorePopular(stats, sorted[1], sorted[2])
        THEN Selected(sorted[1], "5x more popular than next")
    ELSE NoSuggestion

\* whether GuessPackage gets as far as sort.Slice, which reorders the caller's slice
ReachesSort(module, packages) ==
    /\ ~IsStdlib(module)
    /\ Len(packages) >= 2
    /\ FirstExactMatch(module, packages) = 0

\* no second call on a reordering of the candidates
NoReorder ==
    /\ gpReordered = << >>
    /\ gpReorderedResult = NoSuggestion

GPIdle ==
    /\ gpModule = S_empty
    /\ gpPackages = << >>
    /\ gpStats = << >>
    /\ gpResult = NoSuggestion
    /\ gpPc = "idle"
    /\ NoReorder

InitGP ==
    /\ gpModule \in GPModules
    /\ \E n \in 0..MaxCands :
        \E names \in {f \in [1..n -> GPNames] : \A i, j \in 1..n : i # j => f[i] # f[j]} :
        \E mods \in [1..n -> 0..MaxMods] :
            /\ gpPackages = [i \in 1..n |-> [Name |-> names[i], Modules |-> ModuleList(mods[i])]]
            /\ gpStats \in PartialMaps({names[i] : i \in 1..n}, PopChoices)
    /\ gpResult = NoSuggestion
    /\ gpPc = "call"

GuessPackage ==
    /\ gpPc = "call"
    /\ \E sorted \in SortOutcomes(gpPackages, gpStats) :
        /\ gpResult' = GuessPackageOutcome(gpModule, gpPackages, sorted, gpStats)
        /\ gpPackages' = IF ReachesSort(gpModule, gpPackages) THEN sorted ELSE gpPackages
    /\ gpPc' = "done"
    /\ UNCHANGED <<gpModule, gpStats, gpReordered, gpReorderedResult>>
    /\ UNCHANGED <<nmVars, gsVars, srVars, stVars>>

\* the orders in which the candidates of packages can be supplied
Orderings(packages) ==
    LET n == Len(packages)
        perms == {p \in [1..n -> 1..n] : \A i, j \in 1..n : i # j => p[i] # p[j]}
    IN {[i \in 1..n |-> packages[p[i]]] : p \in perms}

\* GuessPackage(gpModule, ordering, gpStats) after the first call returned:
\* the same module, the same downloadStats and the same candidates, supplied
\* in any order
GuessPackageReordered ==
    /\ gpPc = "done"
    /\ \E ordering \in Orderings(gpPackages) :
        IF ReachesSort(gpModule, ordering)
        THEN \E sorted \in SortOutcomes(ordering, gpStats) :
                /\ gpReorderedResult' = GuessPackageOutcome(gpModule, ordering, sorted, gpStats)
                /\ gpReordered' = sorted
        ELSE /\ gpReorderedResult' = GuessPackageOutcome(gpModule, ordering, ordering, gpStats)
             /\ gpReordered' = ordering
    /\ gpPc' = "both done"
    /\ UNCHANGED <<gpModule, gpPackages, gpStats, gpResult>>
    /\ UNCHANGED <<nmVars, gsVars, srVars, stVars>>

----------------------------------------------------------------------------
(* normalizePackageName as an operation *)

\* the longest name normalizePackageName is applied to
MaxNameLen == 3
NormChars == {"a", "A", "-", "_"}
NormNames == UNION {[1..n -> NormChars] : n \in 0..MaxNameLen}

NMIdle ==
    /\ nmA = S_empty
    /\ nmB = S_empty
    /\ nmNA = S_empty
    /\ nmNB = S_empty
    /\ nmCount = 0

InitNM ==
    /\ nmA \in NormNames
    /\ nmB \in NormNames
    /\ nmNA = nmA
    /\ nmNB = nmB
    /\ nmCount = 0

\* one more application of normalizePackageName to both names
Normalize ==
    /\ nmCount < 2
    /\ nmNA' = normalizePackageName(nmNA)
    /\ nmNB' = normalizePackageName(nmNB)
    /\ nmCount' = nmCount + 1
    /\ UNCHANGED <<nmA, nmB, gpVars, gsVars, srVars, stVars>>

----------------------------------------------------------------------------
(* listSpecfile and guess *)

\* strings.Split(s, sep) for a one-character sep
Split(s, sep) ==
    LET RECURSIVE Go(_, _, _)
        Go(i, cur, acc) ==
            IF i > Len(s) THEN Append(acc, cur)
            ELSE IF s[i] = sep THEN Go(i + 1, << >>, Append(acc, cur))
            ELSE Go(i + 1, Append(cur, s[i]), acc)
    IN Go(1, << >>, << >>)

\* the elements of a sequence
Range(seq) == {seq[i] : i \in 1..Len(seq)}

\* values a Poetry dependency entry can have: a version string, a table with
\* a "version" string, a table without one (a git or path dependency)
SpecString == [type |-> "string", value |-> <<"1">>]
SpecTable == [type |-> "map", version |-> SpecString]
SpecTableNoVersion == [type |-> "map", version |-> [type |-> "nil"]]
SpecValues == {SpecString, SpecTable, SpecTableNoVersion}

\* normalizeSpec: the version string of a Poetry spec, or the empty string
normalizeSpec(spec) ==
    IF spec.type = "string" THEN spec.value
    ELSE IF spec.type = "map"
        THEN IF spec.version.type = "string" THEN spec.version.value ELSE << >>
    ELSE << >>

\* one loop of listSpecfile: the entries of a dependency group that are kept
KeptEntries(group) ==
    {n \in DOMAIN group : n # S_python /\ normalizeSpec(group[n]) # << >>}

\* listSpecfile: name -> version string over both groups, the development
\* group written last; err when pyproject.toml cannot be decoded
listSpecfile(specfile) ==
    IF ~specfile.decodable THEN [err |-> TRUE, pkgs |-> << >>]
    ELSE [err |-> FALSE,
          pkgs |-> [n \in KeptEntries(specfile.Dependencies) \cup KeptEntries(specfile.DevDependencies) |->
                        IF n \in KeptEntries(specfile.DevDependencies)
                        THEN normalizeSpec(specfile.DevDependencies[n])
                        ELSE normalizeSpec(specfile.Dependencies[n])]]

\* availMods as guess() fills it: the modules pypiPackageToModules lists
\* under the names listSpecfile returns, looked up as they are spelled
AvailMods(specfile, registry) ==
    IF listSpecfile(specfile).err THEN {}
    ELSE UNION {Range(Split(registry.packageToModules[pkgName], ",")) :
                    pkgName \in DOMAIN listSpecfile(specfile).pkgs \cap DOMAIN registry.packageToModules}

\* a faulty variant of Contribution: the pragma is used as written
ContributionVerbatim(modname, pragmas, avail, registry) ==
    IF modname \in avail THEN {}
    ELSE IF pragmas.Package # << >> THEN {pragmas.Package}
    ELSE IF modname \in DOMAIN registry.moduleToPackage
        THEN {normalizePackageName(registry.moduleToPackage[modname])}
    ELSE {}

\* one iteration of the loop over output.Imports: the keys it adds to pkgs
Contribution(modname, pragmas, avail, registry) ==
    IF modname \in avail THEN {}
    ELSE IF pragmas.Package # << >> THEN {normalizePackageName(pragmas.Package)}
    ELSE IF modname \in DOMAIN registry.moduleToPackage
        THEN {normalizePackageName(registry.moduleToPackage[modname])}
    ELSE {}

\* the names pyproject.toml declares, the modules imported, the pragmas given
DepNames == {S_Ab, S_python}
DevDepNames == {S_ab}
ImportModules == {S_ab, S_b, S_os}
PragmaValues == {<< >>, <<"A", "_", "B">>}

\* a pyproject.toml that toml.DecodeFile rejects, or that is missing
Undecodable == [decodable |-> FALSE, Dependencies |-> << >>, DevDependencies |-> << >>]

\* two snapshots of the generated maps, one keyed by lower-case names
RegistryLower ==
    [packageToModules |-> (S_ab :> <<"a", "b", ",", "b">>) @@ (S_python :> S_os),
     moduleToPackage |-> (S_ab :> S_Ab) @@ (S_b :> S_A_b)]
RegistryMixed ==
    [packageToModules |-> (S_Ab :> <<"a", "b", ",", "b">>) @@ (S_python :> S_os),
     moduleToPackage |-> (S_ab :> S_Ab) @@ (S_b :> S_A_b)]
Registries == {RegistryLower, RegistryMixed}

GSIdle ==
    /\ gsSpecfile = Undecodable
    /\ gsRegistry = RegistryLower
    /\ gsImports = << >>
    /\ gsAvail = {}
    /\ gsTodo = {}
    /\ gsPkgs = {}
    /\ gsContrib = << >>
    /\ gsPc = "idle"

InitGS ==
    /\ gsSpecfile \in {Undecodable} \cup
            [decodable : {TRUE},
             Dependencies : PartialMaps(DepNames, SpecValues),
             DevDependencies : PartialMaps(DevDepNames, SpecValues)]
    /\ gsRegistry \in Registries
    /\ gsImports \in PartialMaps(ImportModules, [Package : PragmaValues])
    /\ gsAvail = {}
    /\ gsTodo = {}
    /\ gsPkgs = {}
    /\ gsContrib = << >>
    /\ gsPc = "start"

\* guess() up to the loop over output.Imports: availMods is filled
GuessAvail ==
    /\ gsPc = "start"
    /\ gsAvail' = AvailMods(gsSpecfile, gsRegistry)
    /\ gsTodo' = DOMAIN gsImports
    /\ gsContrib' = [m \in DOMAIN gsImports |-> {}]
    /\ gsPc' = "loop"
    /\ UNCHANGED <<gsSpecfile, gsRegistry, gsImports, gsPkgs, gpVars, nmVars, srVars, stVars>>

\* one iteration of the loop, the map being ranged over in any order
GuessModule ==
    /\ gsPc = "loop"
    /\ \E modname \in gsTodo :
        LET added == Contribution(modname, gsImports[modname], gsAvail, gsRegistry) IN
        /\ gsPkgs' = gsPkgs \cup added
        /\ gsContrib' = [gsContrib EXCEPT ![modname] = added]
        /\ gsTodo' = gsTodo \ {modname}
    /\ UNCHANGED <<gsSpecfile, gsRegistry, gsImports, gsAvail, gsPc, gpVars, nmVars, srVars, stVars>>

\* return pkgs, output.Success
GuessReturn ==
    /\ gsPc = "loop"
    /\ gsTodo = {}
    /\ gsPc' = "done"
    /\ UNCHANGED <<gsSpecfile, gsRegistry, gsImports, gsAvail, gsTodo, gsPkgs, gsContrib,
                   gpVars, nmVars, srVars, stVars>>

----------------------------------------------------------------------------
(* Search *)

\* the number of packages in pypiPackageToModules
MaxPkgs == 3

\* "a" repeated n times
AStr(n) == [i \in 1..n |-> "a"]
\* the keys of pypiPackageToModules
PkgIndex == {AStr(n) : n \in 1..MaxPkgs}
\* pypiPackageToDownloads: the shortest name is the most downloaded, the
\* others are level with each other
pypiPackageToDownloads == [p \in PkgIndex |-> IF Len(p) = 1 THEN 500 ELSE 100]
\* the queries Search is called with
Queries == {AStr(1), AStr(2), S_b}

\* strings.Contains
Contains(str, substr) ==
    \E i \in 0..(Len(str) - Len(substr)) : SubSeq(str, i + 1, i + Len(substr)) = substr

\* what PyPI answers for a package: its page under the name it was asked
\* for, its page under a name spelled with a capital, or 404
Answers == {"found", "renamed", "notfound"}
AnswerMaps == [PkgIndex -> Answers]

\* the api.PkgInfo info_func returns; src records which lookup produced it
\* and is no field of the program
InfoValue(name, answer) ==
    [Name |-> IF answer = "found" THEN name
              ELSE IF answer = "renamed" THEN <<"A">> \o Tail(name)
              ELSE << >>,
     src |-> name]

\* a faulty variant of ChanCap: the channel is made without a buffer
ChanCapUnbuffered(n) == 0

\* make(chan api.PkgInfo, len(packages))
ChanCap(n) == n

\* a faulty variant of SearchLess: the comparison is turned round
SearchLessAscending(a, b) ==
    Downloads(pypiPackageToDownloads, a.Name) < Downloads(pypiPackageToDownloads, b.Name)

\* the less function Search hands to sort.Slice
SearchLess(a, b) ==
    Downloads(pypiPackageToDownloads, a.Name) > Downloads(pypiPackageToDownloads, b.Name)

\* what sort.Slice may leave in results
SearchSortOutcomes(results) ==
    LET n == Len(results)
        perms == {p \in [1..n -> 1..n] : \A i, j \in 1..n : i # j => p[i] # p[j]}
        arranged == {[i \in 1..n |-> results[p[i]]] : p \in perms}
    IN {s \in arranged : \A i, j \in 1..n : i < j => ~SearchLess(s[j], s[i])}

\* no Search has returned yet
NoPrev == [returned |-> FALSE, results |-> << >>]

SRIdle ==
    /\ srQuery = S_empty
    /\ srInfo = << >>
    /\ srPackages = {}
    /\ srWorker = << >>
    /\ srChan = << >>
    /\ srBarrier = 0
    /\ srResults = << >>
    /\ srPrev = NoPrev
    /\ srPc = "idle"

InitSR ==
    /\ srQuery \in Queries
    /\ srInfo \in AnswerMaps
    /\ srPackages = {}
    /\ srWorker = << >>
    /\ srChan = << >>
    /\ srBarrier = 0
    /\ srResults = << >>
    /\ srPrev = NoPrev
    /\ srPc = "start"

\* the matching loop and the launching loop: one goroutine per match, each
\* counted by barrier.Add(1); Search is then at barrier.Wait()
SearchStart ==
    /\ srPc = "start"
    /\ srPackages' = {p \in PkgIndex : Contains(p, srQuery)}
    /\ srWorker' = [p \in {q \in PkgIndex : Contains(q, srQuery)} |-> "lookup"]
    /\ srBarrier' = Cardinality({p \in PkgIndex : Contains(p, srQuery)})
    /\ srChan' = << >>
    /\ srResults' = << >>
    /\ srPc' = "wait"
    /\ UNCHANGED <<srQuery, srInfo, srPrev, gpVars, nmVars, gsVars, stVars>>

\* info_func returns in a goroutine
InfoReturn(p) ==
    /\ srPc = "wait"
    /\ p \in srPackages
    /\ srWorker[p] = "lookup"
    /\ srWorker' = [srWorker EXCEPT ![p] = "send"]
    /\ UNCHANGED <<srQuery, srInfo, srPackages, srChan, srBarrier, srResults, srPrev, srPc,
                   gpVars, nmVars, gsVars, stVars>>

\* info_func calls util.Die in a goroutine (a failed request, a status other
\* than 200 and 404, an unreadable body): the process exits
InfoDie(p) ==
    /\ srPc = "wait"
    /\ p \in srPackages
    /\ srWorker[p] = "lookup"
    /\ srPc' = "dead"
    /\ UNCHANGED <<srQuery, srInfo, srPackages, srWorker, srChan, srBarrier, srResults, srPrev,
                   gpVars, nmVars, gsVars, stVars>>

\* packageQueries <- value: possible while the buffer has room (nothing
\* receives before barrier.Wait() returns)
WorkerSend(p) ==
    /\ srPc = "wait"
    /\ p \in srPackages
    /\ srWorker[p] = "send"
    /\ Len(srChan) < ChanCap(Cardinality(srPackages))
    /\ srChan' = Append(srChan, InfoValue(p, srInfo[p]))
    /\ srWorker' = [srWorker EXCEPT ![p] = "signal"]
    /\ UNCHANGED <<srQuery, srInfo, srPackages, srBarrier, srResults, srPrev, srPc,
                   gpVars, nmVars, gsVars, stVars>>

\* barrier.Done()
WorkerDone(p) ==
    /\ srPc = "wait"
    /\ p \in srPackages
    /\ srWorker[p] = "signal"
    /\ srBarrier' = srBarrier - 1
    /\ srWorker' = [srWorker EXCEPT ![p] = "exit"]
    /\ UNCHANGED <<srQuery, srInfo, srPackages, srChan, srResults, srPrev, srPc,
                   gpVars, nmVars, gsVars, stVars>>

\* barrier.Wait() returns, the channel is closed and drained into results
SearchCollect ==
    /\ srPc = "wait"
    /\ srBarrier = 0
    /\ srResults' = srChan
    /\ srChan' = << >>
    /\ srPc' = "sort"
    /\ UNCHANGED <<srQuery, srInfo, srPackages, srWorker, srBarrier, srPrev, gpVars, nmVars, gsVars, stVars>>

\* sort.Slice(results, ...) and return results
SearchReturn ==
    /\ srPc = "sort"
    /\ srResults' \in SearchSortOutcomes(srResults)
    /\ srPc' = "done"
    /\ UNCHANGED <<srQuery, srInfo, srPackages, srWorker, srChan, srBarrier, srPrev,
                   gpVars, nmVars, gsVars, stVars>>

\* Search is called once more with the same query on the same data
SearchAgain ==
    /\ srPc = "done"
    /\ ~srPrev.returned
    /\ srPrev' = [returned |-> TRUE, results |-> srResults]
    /\ srPc' = "start"
    /\ UNCHANGED <<srQuery, srInfo, srPackages, srWorker, srChan, srBarrier, srResults,
                   gpVars, nmVars, gsVars, stVars>>

----------------------------------------------------------------------------
(* The content-hash store *)

\* the number of different contents a file can have
NumContents == 2
\* the number of invocations of updateStoreHashes
MaxInvocations == 3

\* a file that does not exist, and the files that do, by content
Missing == [exists |-> FALSE, content |-> 0]
FileStates == {Missing} \cup [exists : {TRUE}, content : 1..NumContents]

\* hashFile: the empty hash for a file that does not exist, else a digest
\* of its content, different contents giving different digests
hashFile(file) == IF ~file.exists THEN << >> ELSE <<"digest", file.content>>

\* store{}: both hashes empty; specBy and lockBy record the invocation that
\* set each field and are no fields of the program
DefaultStore == [specfileHash |-> << >>, lockfileHash |-> << >>, specBy |-> 0, lockBy |-> 0]
\* no store file on disk
NoStoreFile == [written |-> FALSE, store |-> DefaultStore]

STIdle ==
    /\ stSpecfile = Missing
    /\ stLockfile = Missing
    /\ stPersisted = NoStoreFile
    /\ stLocal = DefaultStore
    /\ stPc = "unused"
    /\ stInv = 0
    /\ stReturned = {}
    /\ stAtStart = NoStoreFile

InitST ==
    /\ stSpecfile \in FileStates
    /\ stLockfile \in FileStates
    /\ stPersisted = NoStoreFile
    /\ stLocal = DefaultStore
    /\ stPc = "idle"
    /\ stInv = 0
    /\ stReturned = {}
    /\ stAtStart = NoStoreFile

\* something outside upm writes or deletes the specfile or the lockfile
EditFiles ==
    /\ stPc # "unused"
    /\ stSpecfile' \in FileStates
    /\ stLockfile' \in FileStates
    /\ UNCHANGED <<stPersisted, stLocal, stPc, stInv, stReturned, stAtStart,
                   gpVars, nmVars, gsVars, srVars>>

\* updateStoreHashes is called (a new run of the command after the last one
\* returned or died)
StoreInvoke ==
    /\ stPc \in {"idle", "returned", "died"}
    /\ stInv < MaxInvocations
    /\ stInv' = stInv + 1
    /\ stAtStart' = stPersisted
    /\ stLocal' = DefaultStore
    /\ stPc' = "read"
    /\ UNCHANGED <<stSpecfile, stLockfile, stPersisted, stReturned, gpVars, nmVars, gsVars, srVars>>

\* store := readStore(): store{} when the file does not exist, else its content
readStore ==
    /\ stPc = "read"
    /\ stLocal' = IF stPersisted.written THEN stPersisted.store ELSE DefaultStore
    /\ stPc' = "hashSpec"
    /\ UNCHANGED <<stSpecfile, stLockfile, stPersisted, stInv, stReturned, stAtStart,
                   gpVars, nmVars, gsVars, srVars>>

\* readStore dies: the file exists and cannot be read
readStoreDie ==
    /\ stPc = "read"
    /\ stPersisted.written
    /\ stPc' = "died"
    /\ UNCHANGED <<stSpecfile, stLockfile, stPersisted, stLocal, stInv, stReturned, stAtStart,
                   gpVars, nmVars, gsVars, srVars>>

\* store.specfileHash = hashFile(specfile)
HashSpecfile ==
    /\ stPc = "hashSpec"
    /\ stLocal' = [stLocal EXCEPT !.specfileHash = hashFile(stSpecfile), !.specBy = stInv]
    /\ stPc' = "hashLock"
    /\ UNCHANGED <<stSpecfile, stLockfile, stPersisted, stInv, stReturned, stAtStart,
                   gpVars, nmVars, gsVars, srVars>>

\* store.lockfileHash = hashFile(lockfile)
HashLockfile ==
    /\ stPc = "hashLock"
    /\ stLocal' = [stLocal EXCEPT !.lockfileHash = hashFile(stLockfile), !.lockBy = stInv]
    /\ stPc' = "check"
    /\ UNCHANGED <<stSpecfile, stLockfile, stPersisted, stInv, stReturned, stAtStart,
                   gpVars, nmVars, gsVars, srVars>>

\* a faulty variant of CheckHashes: only the specfile's hash is tested
CheckHashesSpecOnly ==
    /\ stPc = "check"
    /\ stPc' = IF stLocal.specfileHash = << >> THEN "died" ELSE "write"
    /\ UNCHANGED <<stSpecfile, stLockfile, stPersisted, stLocal, stInv, stReturned, stAtStart,
                   gpVars, nmVars, gsVars, srVars>>

\* the two tests for an empty hash, each ending in die
CheckHashes ==
    /\ stPc = "check"
    /\ stPc' = IF stLocal.specfileHash = << >> THEN "died"
               ELSE IF stLocal.lockfileHash = << >> THEN "died"
               ELSE "write"
    /\ UNCHANGED <<stSpecfile, stLockfile, stPersisted, stLocal, stInv, stReturned, stAtStart,
                   gpVars, nmVars, gsVars, srVars>>

\* writeStore(store) writes the file and updateStoreHashes returns
writeStore ==
    /\ stPc = "write"
    /\ stPersisted' = [written |-> TRUE, store |-> stLocal]
    /\ stReturned' = stReturned \cup {stInv}
    /\ stPc' = "returned"
    /\ UNCHANGED <<stSpecfile, stLockfile, stLocal, stInv, stAtStart, gpVars, nmVars, gsVars, srVars>>

\* writeStore dies: the directory cannot be made or the file cannot be written
writeStoreDie ==
    /\ stPc = "write"
    /\ stPc' = "died"
    /\ UNCHANGED <<stSpecfile, stLockfile, stPersisted, stLocal, stInv, stReturned, stAtStart,
                   gpVars, nmVars, gsVars, srVars>>

----------------------------------------------------------------------------
(* Properties of GuessPackage *)

\* the name comparison as the specification words it: both names lower-cased,
\* "-" and "_" taken as the same separator
ClaimNormalized(name) == ReplaceAll(ToLower(name), "-", "_")
ClaimNameMatch(candidate, module) ==
    ClaimNormalized(candidate.Name) = ClaimNormalized(module)

GPDone == gpPc = "done"
GPTwoOrMore == Len(gpPackages) >= 2
GPSomeMatch == \E i \in 1..Len(gpPackages) : ClaimNameMatch(gpPackages[i], gpModule)
\* the case of the popularity rules: not standard library, two or more
\* candidates, none matching the module's name
GPPopularityCase == GPDone /\ ~IsStdlib(gpModule) /\ GPTwoOrMore /\ ~GPSomeMatch
GPTop == gpPackages[1]
GPSecond == gpPackages[2]
GPPop(pkg) == Downloads(gpStats, pkg.Name)

\* C1: for a module outside the standard library with two or more candidates,
\* one of which matches the module's name after normalizing both names,
\* GuessPackage selects a matching candidate.
C1_ExactMatchSelected ==
    (GPDone /\ ~IsStdlib(gpModule) /\ GPTwoOrMore /\ GPSomeMatch)
        => (gpResult.kind = "selected" /\ ClaimNameMatch(gpResult.pkg, gpModule))

\* C2 as stated: in the popularity case with a top candidate of popularity at
\* least 100 (both candidates declaring modules), the top candidate is selected
\* if and only if its popularity per module is at least 5 times the second's,
\* the ratios taken exactly; otherwise there is no suggestion.
C2_ExactRatio ==
    (GPPopularityCase /\ GPPop(GPTop) >= PopularityFloor
        /\ Len(GPTop.Modules) >= 1 /\ Len(GPSecond.Modules) >= 1)
        => IF GPPop(GPTop) * Len(GPSecond.Modules)
                >= 5 * GPPop(GPSecond) * Len(GPTop.Modules)
           THEN gpResult.kind = "selected" /\ gpResult.pkg = GPTop
           ELSE gpResult = NoSuggestion

\* C2 amended: in the popularity case with a top candidate of popularity at
\* least 100, the top candidate is selected if and only if the integer quotient
\* popularity(top) div modules(top) is strictly greater than the integer
\* quotient (5 * popularity(second)) div modules(second); otherwise there is no
\* suggestion; and if either of the two declares no module the call faults.
C2_IntegerQuotient ==
    (GPPopularityCase /\ GPPop(GPTop) >= PopularityFloor)
        => IF Len(GPTop.Modules) = 0 \/ Len(GPSecond.Modules) = 0
           THEN gpResult.kind = "panic"
           ELSE IF GPPop(GPTop) \div Len(GPTop.Modules)
                    > (5 * GPPop(GPSecond)) \div Len(GPSecond.Modules)
           THEN gpResult.kind = "selected" /\ gpResult.pkg = GPTop
           ELSE gpResult = NoSuggestion

\* A (popularity 1000, 2 modules) is selected over B (popularity 50, 1 module)
C2_Witness ==
    /\ GPPopularityCase
    /\ GPPop(GPTop) = 1000 /\ Len(GPTop.Modules) = 2
    /\ GPPop(GPSecond) = 50 /\ Len(GPSecond.Modules) = 1
    /\ gpResult.kind = "selected" /\ gpResult.pkg = GPTop

\* C3: in the popularity case, if every candidate's popularity is below 100
\* (a name absent from downloadStats counting 0), there is no suggestion.
C3_BelowFloorNoSuggestion ==
    (GPPopularityCase /\ \A i \in 1..Len(gpPackages) : GPPop(gpPackages[i]) < 100)
        => gpResult = NoSuggestion

\* the most popular candidate has 99 downloads and one module, the other has
\* no entry, so the per-module ratio is as large as can be
C3_Witness ==
    /\ GPPopularityCase
    /\ GPPop(GPTop) = 99 /\ Len(GPTop.Modules) = 1
    /\ GPSecond.Name \notin DOMAIN gpStats /\ Len(GPSecond.Modules) = 1
    /\ gpResult = NoSuggestion

\* C4: for a module of the standard library, whatever the candidates and the
\* download counts, there is no suggestion.
C4_StdlibNoSuggestion ==
    (GPDone /\ gpModule \in stdlibMods) => gpResult = NoSuggestion

\* a standard-library module with a single candidate carrying its very name and
\* the highest download count
C4_Witness ==
    /\ GPDone /\ gpModule = S_os
    /\ Len(gpPackages) = 1 /\ gpPackages[1].Name = S_os
    /\ GPPop(gpPackages[1]) = 1000
    /\ gpResult = NoSuggestion

\* both calls of the two-orderings scenario have returned
GPBothDone == gpPc = "both done"
\* the candidates whose name the exact-name loop accepts for the module
GPMatching == {i \in 1..Len(gpPackages) : ExactNameMatch(gpPackages[i], gpModule)}
\* no two candidates have the same popularity
GPDistinctPopularity ==
    \A i, j \in 1..Len(gpPackages) :
        i # j => GPPop(gpPackages[i]) # GPPop(gpPackages[j])

\* C11 as stated: for any two orderings of the same candidates, with the same
\* module and the same popularity mapping, GuessPackage returns the same
\* selection or the same no-suggestion.
C11_OrderIndependent ==
    GPBothDone => gpReorderedResult = gpResult

\* C11 amended: two orderings of the same candidates give the same outcome
\* whenever at most one candidate's name matches the module exactly and, if
\* none matches, no two candidates have equal popularity. (With several exact
\* matches the one supplied first is selected.)
C11_OrderIndependentUnlessTied ==
    (GPBothDone
        /\ Cardinality(GPMatching) <= 1
        /\ (GPMatching = {} => GPDistinctPopularity))
        => gpReorderedResult = gpResult

\* module A_b with the candidates os and a-b, supplied as [os, a-b] to one call
\* and as [a-b, os] to the other: a-b, the only exact match, is selected by both
C11_Witness ==
    /\ GPBothDone /\ gpModule = S_A_b
    /\ Len(gpPackages) = 2
    /\ gpPackages[1].Name = S_os /\ gpPackages[2].Name = S_adashb
    /\ gpReordered = <<gpPackages[2], gpPackages[1]>>
    /\ gpResult.kind = "selected" /\ gpResult.pkg = gpPackages[2]
    /\ gpReorderedResult = gpResult

\* C12: for every input GuessPackage completes with a selected candidate or
\* with no suggestion and never faults; in particular a candidate among the
\* two most popular that declares zero modules causes no division by zero.
C12_NeverFaults ==
    GPDone => gpResult.kind \in {"selected", "none"}

----------------------------------------------------------------------------
(* Properties of normalizePackageName *)

\* two characters that differ at most in letter case or in "_" versus "-"
SameChar(c, d) ==
    \/ c = d
    \/ {c, d} = {"a", "A"}
    \/ {c, d} = {"-", "_"}
\* two names that differ only in letter case or in the separator used
SameSpelling(m, n) ==
    Len(m) = Len(n) /\ \A i \in 1..Len(m) : SameChar(m[i], n[i])

\* C10: normalizing twice gives what normalizing once gives, and two names
\* that differ only in letter case or in "_" versus "-" normalize alike.
C10_NormalizeIdempotentInsensitive ==
    /\ nmCount = 2 => (nmNA = normalizePackageName(nmA) /\ nmNB = normalizePackageName(nmB))
    /\ (nmCount >= 1 /\ SameSpelling(nmA, nmB)) => nmNA = nmNB

\* two spellings that differ in case and in separator, normalized twice to
\* the same name, which differs from both
C10_Witness ==
    /\ nmCount = 2
    /\ nmA = <<"A", "_", "a">> /\ nmB = <<"a", "-", "A">>
    /\ nmNA = <<"a", "-", "a">> /\ nmNB = nmNA

----------------------------------------------------------------------------
(* Properties of guess *)

GSDone == gsPc = "done"
\* the packages pyproject.toml declares in either group
GSDeclared ==
    IF ~gsSpecfile.decodable THEN {}
    ELSE (DOMAIN gsSpecfile.Dependencies \cup DOMAIN gsSpecfile.DevDependencies) \ {S_python}
\* the modules the registry lists for a declared package, the package found
\* in the registry by its normalized name
GSSatisfied ==
    UNION {Range(Split(gsRegistry.packageToModules[k], ",")) :
            k \in {k \in DOMAIN gsRegistry.packageToModules :
                    \E d \in GSDeclared : normalizePackageName(k) = normalizePackageName(d)}}

\* C5: an imported module that a declared package supplies adds nothing to
\* the result of guess, whether it has a pragma or a registry candidate.
C5_SatisfiedModuleAbsent ==
    GSDone => \A m \in DOMAIN gsImports : m \in GSSatisfied => gsContrib[m] = {}

\* C9 as stated: every import that has a pragma adds exactly the normalized
\* pragma name to the result.
C9_PragmaAlways ==
    GSDone => \A m \in DOMAIN gsImports :
        gsImports[m].Package # << >> => gsContrib[m] = {normalizePackageName(gsImports[m].Package)}

\* C9 amended: an import that has a pragma and is not in availMods adds exactly
\* the normalized pragma name to the result, not the registry's package for
\* it; an import in availMods adds nothing, pragma or not.
C9_PragmaUnlessAvailable ==
    GSDone => \A m \in DOMAIN gsImports :
        gsImports[m].Package # << >> =>
            gsContrib[m] = IF m \in gsAvail THEN {}
                           ELSE {ReplaceAll(ToLower(gsImports[m].Package), "_", "-")}

\* pragmas on a standard-library module and on a module whose registry
\* package is another one: the result holds the pragma's name alone
C9_Witness ==
    /\ GSDone
    /\ DOMAIN gsImports = {S_os, S_ab}
    /\ gsImports[S_os].Package = <<"A", "_", "B">>
    /\ gsImports[S_ab].Package = <<"A", "_", "B">>
    /\ gsRegistry.moduleToPackage[S_ab] = S_Ab
    /\ gsAvail = {}
    /\ gsPkgs = {<<"a", "-", "b">>}

----------------------------------------------------------------------------
(* Properties of Search *)

SRDone == srPc = "done"
\* the packages whose name contains the query
SRMatched == {p \in PkgIndex : Contains(p, srQuery)}
\* the sequence Search returns, without the bookkeeping field
SRReturned(results) == [i \in 1..Len(results) |-> results[i].Name]
\* how many entries of a result carry a name
SRCount(results, name) == Cardinality({i \in 1..Len(results) : results[i].Name = name})

\* C6 as stated: the returned sequence is strictly descending in the
\* popularity of the matched packages and is the same as the one the previous
\* Search on the same data returned, whatever the completion order.
C6_StrictAndDeterministic ==
    SRDone =>
        /\ \A i, j \in 1..Len(srResults) : i < j =>
                pypiPackageToDownloads[srResults[i].src] > pypiPackageToDownloads[srResults[j].src]
        /\ srPrev.returned => SRReturned(srResults) = SRReturned(srPrev.results)

\* C6 amended: the returned sequence is non-increasing in the download count
\* recorded under each entry's reported name (0 for a name with no record,
\* such as the empty name of a not-found entry), and it holds the same
\* entries, each as many times, as the one the previous Search on the same
\* data returned; the order among entries of equal count is not fixed.
C6_SortedSameEntries ==
    SRDone =>
        /\ \A i, j \in 1..Len(srResults) : i < j =>
                Downloads(pypiPackageToDownloads, srResults[i].Name)
                    >= Downloads(pypiPackageToDownloads, srResults[j].Name)
        /\ srPrev.returned =>
                /\ Len(srResults) = Len(srPrev.results)
                /\ \A i \in 1..Len(srResults) :
                        SRCount(srResults, srResults[i].Name)
                            = SRCount(srPrev.results, srResults[i].Name)

\* two Searches on the same data, three matches, returned in different orders
C6_Witness ==
    /\ SRDone
    /\ srPrev.returned
    /\ Cardinality(SRMatched) = 3
    /\ SRReturned(srResults) # SRReturned(srPrev.results)

\* every lookup has returned and nothing has made the process exit
SRAllReturned ==
    /\ srPc = "wait"
    /\ \A p \in srPackages : srWorker[p] # "lookup"

\* what holds of a Search that has started, and of one that has returned
SRFanOutFanIn ==
    /\ srPc \in {"wait", "sort", "done"} => DOMAIN srWorker = SRMatched
    /\ srPc \in {"sort", "done"} =>
        /\ \A p \in SRMatched : srWorker[p] = "exit"
        /\ Len(srResults) = Cardinality(SRMatched)
        /\ \A p \in SRMatched :
                \E i \in 1..Len(srResults) : srResults[i] = InfoValue(p, srInfo[p])

\* C7: one lookup is launched per package whose name contains the query;
\* Search returns only after each has delivered its result, with exactly one
\* entry per matched package; and once all lookups have returned, Search
\* returns.
C7_FanOutFanIn == [](SRFanOutFanIn) /\ (SRAllReturned ~> SRDone)

\* three lookups all delivered before Search returned three entries
C7_Witness ==
    /\ SRDone
    /\ Cardinality(SRMatched) = 3
    /\ Len(srResults) = 3
    /\ \A p \in SRMatched : srWorker[p] = "exit"

----------------------------------------------------------------------------
(* Properties of updateStoreHashes *)

\* the running invocation found the specfile or the lockfile missing
STSawMissing ==
    \/ stPc \in {"hashLock", "check", "write", "returned", "died"}
        /\ stLocal.specBy = stInv /\ stLocal.specfileHash = << >>
    \/ stPc \in {"check", "write", "returned", "died"}
        /\ stLocal.lockBy = stInv /\ stLocal.lockfileHash = << >>

\* C8: the store file is either never written, or holds two hashes of files
\* that existed, both set by one invocation, which returned; an invocation
\* that finds the specfile or the lockfile missing dies and leaves the store
\* file as it found it.
C8_BothOrNeither ==
    /\ stPersisted.written =>
        /\ stPersisted.store.specfileHash # << >>
        /\ stPersisted.store.lockfileHash # << >>
        /\ stPersisted.store.specBy = stPersisted.store.lockBy
        /\ stPersisted.store.specBy \in stReturned
    /\ ~stPersisted.written => stPersisted.store = DefaultStore
    /\ STSawMissing => stPc \notin {"write", "returned"}
    /\ (STSawMissing \/ stPc = "died") => stPersisted = stAtStart

\* a second invocation found the lockfile missing after the first had written
\* both hashes: it died and the store file still holds the first one's pair
C8_Witness ==
    /\ stInv = 2
    /\ stPc = "died"
    /\ stLocal.specfileHash # << >>
    /\ stLocal.lockfileHash = << >>
    /\ stPersisted.written
    /\ stPersisted.store.specBy = 1
    /\ stPersisted.store.lockBy = 1

----------------------------------------------------------------------------
(* Specifications *)

InitGuessPackage == InitGP /\ NoReorder /\ NMIdle /\ GSIdle /\ SRIdle /\ STIdle
NextGuessPackage == GuessPackage
SpecGuessPackage == InitGuessPackage /\ [][NextGuessPackage]_vars

\* GuessPackage called on two orderings of the same candidates
InitGuessPackageReorder == InitGP /\ NoReorder /\ NMIdle /\ GSIdle /\ SRIdle /\ STIdle
NextGuessPackageReorder == GuessPackage \/ GuessPackageReordered
SpecGuessPackageReorder == InitGuessPackageReorder /\ [][NextGuessPackageReorder]_vars

InitNormalize == InitNM /\ GPIdle /\ GSIdle /\ SRIdle /\ STIdle
NextNormalize == Normalize
SpecNormalize == InitNormalize /\ [][NextNormalize]_vars

InitGuess == InitGS /\ GPIdle /\ NMIdle /\ SRIdle /\ STIdle
NextGuess == GuessAvail \/ GuessModule \/ GuessReturn
SpecGuess == InitGuess /\ [][NextGuess]_vars

InitSearch == InitSR /\ GPIdle /\ NMIdle /\ GSIdle /\ STIdle
SearchStep ==
    \/ SearchStart
    \/ \E p \in PkgIndex : InfoReturn(p) \/ InfoDie(p) \/ WorkerSend(p) \/ WorkerDone(p)
    \/ SearchCollect
    \/ SearchReturn
NextSearch == SearchStep
\* the goroutines and Search itself are scheduled; nothing makes a request
\* to PyPI come back
SearchFairness ==
    /\ \A p \in PkgIndex : WF_vars(WorkerSend(p)) /\ WF_vars(WorkerDone(p))
    /\ WF_vars(SearchStart) /\ WF_vars(SearchCollect) /\ WF_vars(SearchReturn)
SpecSearch == InitSearch /\ [][NextSearch]_vars /\ SearchFairness

NextSearchRepeat == SearchStep \/ SearchAgain
SpecSearchRepeat == InitSearch /\ [][NextSearchRepeat]_vars

InitStore == InitST /\ GPIdle /\ NMIdle /\ GSIdle /\ SRIdle
NextStore ==
    \/ EditFiles
    \/ StoreInvoke
    \/ readStore
    \/ readStoreDie
    \/ HashSpecfile
    \/ HashLockfile
    \/ CheckHashes
    \/ writeStore
    \/ writeStoreDie
SpecStore == InitStore /\ [][NextStore]_vars

====
